---- MODULE Spec2Model ----
(***************************************************************************)
(* A model of the Termux WiFi scanner of src/main.py: the start-up probe   *)
(* (AndroidScanner.setup_termux), the two scan commands and their parsers, *)
(* the enrichment and publication of scan_all, the background loop         *)
(* run_scanner_loop and the reader path get_data / do_GET.                 *)
(*                                                                         *)
(* Python values are modelled as follows.                                  *)
(*  - A str is a sequence of one-character strings, so that the substring  *)
(*    tests, upper() and lower() of the code are computed, not assumed.    *)
(*    An opaque token (a MAC address) is a one-element sequence.           *)
(*  - A value of a dict that came out of json.loads is a record            *)
(*    [k, s, n]: k is "absent" (no such key), "null", "num" or "str".      *)
(*  - A list object that more than one thread can reach lives in heap and  *)
(*    is named by its identity, so that mutation in place and rebinding    *)
(*    of a name are different things, as they are in Python.               *)
(***************************************************************************)
EXTENDS Integers, Sequences, FiniteSets, TLC

VARIABLES
    proc,         \* main(): "probe1", "probe2", "constructed", "running", "exited"
    spc,          \* position of the run_scanner_loop thread
    lock,         \* holder of AndroidScanner.lock: "free", "scanner" or a reader
    wifi,         \* scan_all's local wifi (list of provisional signal dicts)
    allSignals,   \* scan_all's local all_signals after the enrichment loop
    exc,          \* the exception propagating out of scan_all, or "none"
    heap,         \* list objects by identity: [Ids -> sequence]
    signalsRef,   \* AndroidScanner.signals (an identity)
    timelineRef,  \* AndroidScanner.timeline (an identity)
    rpc,          \* position of each request thread
    res,          \* the dict each request thread got from get_data
    now,          \* datetime.now(), in seconds since process start; the model
                  \* lets time pass in time.sleep only
    outcome,      \* what the scan commands of the current/last cycle did
    published,    \* the entries inserted into the timeline, oldest first
    strhash,      \* this process's str.__hash__ on the MAC strings
    runPos,       \* positions computed in this process run, per MAC
    prevRunPos,   \* positions computed in earlier process runs, per MAC
    riskArg,      \* argument of a calculate_risk_score call
    riskRet,      \* its return value
    parseArg,     \* input of a parser call: a capabilities str or a command result
    parseRet      \* what the parser made of it

vars == <<proc, spc, lock, wifi, allSignals, exc, heap, signalsRef,
          timelineRef, rpc, res, now, outcome, published, strhash, runPos,
          prevRunPos, riskArg, riskRet, parseArg, parseRet>>

(***************************************************************************)
(* Bounds of the model and constants of the program.                       *)
(***************************************************************************)
MaxSleeps == 1          \* the main specification runs this many sleeps
MaxHistSleeps == 60     \* the history specification runs this many sleeps
FreeCycles == 2         \* cycles of the history specification with free input
HistoryBound == 50      \* self.timeline[:50]
SleepSeconds == 6       \* time.sleep(6)
SecondsPerDay == 86400  \* strftime('%H:%M:%S') drops the date

Readers == {"r1", "r2"}

Min(a, b) == IF a <= b THEN a ELSE b

(***************************************************************************)
(* Strings.                                                                *)
(***************************************************************************)
Lowercase == <<"a","b","c","d","e","f","g","h","i","j","k","l","m",
               "n","o","p","q","r","s","t","u","v","w","x","y","z">>
Uppercase == <<"A","B","C","D","E","F","G","H","I","J","K","L","M",
               "N","O","P","Q","R","S","T","U","V","W","X","Y","Z">>

UpperChar(c) ==
    IF \E i \in 1..26 : Lowercase[i] = c
    THEN Uppercase[CHOOSE i \in 1..26 : Lowercase[i] = c]
    ELSE c

LowerChar(c) ==
    IF \E i \in 1..26 : Uppercase[i] = c
    THEN Lowercase[CHOOSE i \in 1..26 : Uppercase[i] = c]
    ELSE c

\* str.upper() and str.lower()
Upper(s) == [i \in 1..Len(s) |-> UpperChar(s[i])]
Lower(s) == [i \in 1..Len(s) |-> LowerChar(s[i])]

\* sub in s
Contains(sub, s) ==
    \E i \in 0..(Len(s) - Len(sub)) :
        \A j \in 1..Len(sub) : s[i + j] = sub[j]

sEmpty == <<>>
sOPEN == <<"O","P","E","N">>
sOpen == <<"O","p","e","n">>
sWEP == <<"W","E","P">>
sWPA == <<"W","P","A">>
sWPA2 == <<"W","P","A","2">>
sWPA3 == <<"W","P","A","3">>
sESS == <<"[","E","S","S","]">>
sUnknown == <<"U","n","k","n","o","w","n">>
sUnknownSsid == <<"<","u","n","k","n","o","w","n"," ","s","s","i","d",">">>
sUnknownMac == <<"unknown">>
sWifiType == <<"w","i","f","i">>

\* the list `suspicious` of calculate_risk_score
Suspicious == {
    <<"f","r","e","e">>,
    <<"g","u","e","s","t">>,
    <<"p","u","b","l","i","c">>,
    <<"t","e","s","t">>,
    <<"d","e","f","a","u","l","t">>,
    <<"a","n","d","r","o","i","d">>,
    <<"w","i","f","i">> }

Digits == <<"0","1","2","3","4","5","6","7","8","9">>

RECURSIVE NatStr(_)
NatStr(n) ==
    IF n < 10 THEN <<Digits[n + 1]>>
    ELSE NatStr(n \div 10) \o <<Digits[(n % 10) + 1]>>

\* str(n) of an int
Str(n) == IF n < 0 THEN <<"-">> \o NatStr(0 - n) ELSE NatStr(n)

(***************************************************************************)
(* Values of a dict.                                                       *)
(***************************************************************************)
JAbsent == [k |-> "absent", s |-> <<>>, n |-> 0]
JNull == [k |-> "null", s |-> <<>>, n |-> 0]
JNum(n) == [k |-> "num", s |-> <<>>, n |-> n]
JStr(s) == [k |-> "str", s |-> s, n |-> 0]

\* dict.get(key, default)
Get(v, default) == IF v.k = "absent" THEN default ELSE v

(***************************************************************************)
(* A signal dict.  Every key the program ever sets is a field; a key the   *)
(* dict does not hold is JAbsent.                                          *)
(***************************************************************************)
EmptySig ==
    [type |-> JAbsent, ssid |-> JAbsent, mac |-> JAbsent, rssi |-> JAbsent,
     encryption |-> JAbsent, channel |-> JAbsent, frequency |-> JAbsent,
     distance |-> JAbsent, risk |-> JAbsent, timestamp |-> JAbsent,
     x |-> JAbsent, y |-> JAbsent]

(***************************************************************************)
(* calculate_distance.  The value is a real number the model does not      *)
(* compute: it is kept as the branch taken and the rssi it was computed    *)
(* from, which determine it.  The division raises TypeError on a rssi      *)
(* that is not a number.                                                   *)
(***************************************************************************)
DistanceRaises(rssi) ==
    IF rssi.k = "num" THEN "none" ELSE "TypeError"

CalculateDistance(rssi) ==
    IF rssi.n = 0 \/ rssi.n = -100 THEN JNum(100)
    ELSE IF rssi.n > -60
         THEN [k |-> "num", s |-> <<"pow10">>, n |-> rssi.n]
         ELSE [k |-> "num", s |-> <<"pow7.7095">>, n |-> rssi.n]

(***************************************************************************)
(* calculate_risk_score.                                                   *)
(***************************************************************************)
\* a plausible slip: a bonus for strong encryption
EncryptionTermWithBonus(encryption) ==
    IF Contains(sOPEN, Upper(encryption)) \/ encryption = sEmpty THEN 40
    ELSE IF Contains(sWEP, Upper(encryption)) THEN 35
    ELSE IF Contains(sWPA, Upper(encryption))
            /\ ~Contains(sWPA2, Upper(encryption)) THEN 20
    ELSE -10

EncryptionTerm(encryption) ==
    IF Contains(sOPEN, Upper(encryption)) \/ encryption = sEmpty THEN 40
    ELSE IF Contains(sWEP, Upper(encryption)) THEN 35
    ELSE IF Contains(sWPA, Upper(encryption))
            /\ ~Contains(sWPA2, Upper(encryption)) THEN 20
    ELSE 0

ProximityTerm(rssi) ==
    IF rssi > -50 THEN 30
    ELSE IF rssi > -65 THEN 20
    ELSE IF rssi > -75 THEN 10
    ELSE 0

\* ssid is already lower-cased here
SuspiciousTerm(ssid) ==
    IF \E w \in Suspicious : Contains(w, ssid) THEN 15 ELSE 0

HiddenTerm(ssid) ==
    IF ssid = sEmpty \/ ssid = sUnknownSsid THEN 20 ELSE 0

\* the exception calculate_risk_score raises on this dict, or "none"
RiskRaises(signal) ==
    IF Get(signal.encryption, JStr(sUnknown)).k # "str" THEN "AttributeError"
    ELSE IF Get(signal.rssi, JNum(-100)).k # "num" THEN "TypeError"
    ELSE IF Get(signal.ssid, JStr(sEmpty)).k # "str" THEN "AttributeError"
    ELSE "none"

CalculateRiskScore(signal) ==
    LET encryption == Get(signal.encryption, JStr(sUnknown)).s
        rssi == Get(signal.rssi, JNum(-100)).n
        ssid == Lower(Get(signal.ssid, JStr(sEmpty)).s)
        score == EncryptionTerm(encryption) + ProximityTerm(rssi)
                 + SuspiciousTerm(ssid) + HiddenTerm(ssid)
    IN  Min(score, 100)

(***************************************************************************)
(* The synthetic position.  hash() of a str is salted per process          *)
(* (PYTHONHASHSEED is not set by the program), so within one process it is *)
(* a fixed function, strhash, and another process has another one.  hash() *)
(* of an int is the int.                                                   *)
(***************************************************************************)
PyHash(mac) ==
    CASE mac.k = "str" -> strhash[mac.s]
      [] mac.k = "num" -> mac.n

PositionX(hash_val) == (hash_val % 180) - 90
PositionY(hash_val) == ((hash_val \div 180) % 160) - 80

(***************************************************************************)
(* The body of scan_all's enrichment loop on one dict.                     *)
(***************************************************************************)
EnrichRaises(sig) ==
    IF sig.rssi.k = "absent" THEN "KeyError"
    ELSE IF DistanceRaises(sig.rssi) # "none" THEN DistanceRaises(sig.rssi)
    ELSE IF RiskRaises(sig) # "none" THEN RiskRaises(sig)
    ELSE IF sig.mac.k = "absent" THEN "KeyError"
    ELSE "none"

EnrichSig(sig, t) ==
    [sig EXCEPT !.distance = CalculateDistance(sig.rssi),
                !.risk = JNum(CalculateRiskScore(sig)),
                !.timestamp = JNum(t),
                !.x = JNum(PositionX(PyHash(sig.mac))),
                !.y = JNum(PositionY(PyHash(sig.mac)))]

\* the first exception the loop over all_signals raises, or "none"
EnrichAllRaises(sigs) ==
    IF \A i \in 1..Len(sigs) : EnrichRaises(sigs[i]) = "none" THEN "none"
    ELSE EnrichRaises(sigs[CHOOSE i \in 1..Len(sigs) :
            /\ EnrichRaises(sigs[i]) # "none"
            /\ \A j \in 1..(i - 1) : EnrichRaises(sigs[j]) = "none"])

EnrichAll(sigs, t) == [i \in 1..Len(sigs) |-> EnrichSig(sigs[i], t)]

(***************************************************************************)
(* scan_wifi_termux.  The command's result is                              *)
(*   [kind, data]: kind is "timeout" (TimeoutExpired), "error" (another    *)
(*   exception of subprocess.run), "nonzero" (returncode != 0), "empty"    *)
(*   (blank stdout), "badjson", "notlist" (JSON, but not a list) or "list";*)
(*   data is the decoded list, each element [isobj, ssid, bssid, rssi,     *)
(*   frequency, capabilities].                                             *)
(***************************************************************************)
TermuxEncryption(capabilities) ==
    IF Contains(sWPA2, capabilities) THEN sWPA2
    ELSE IF Contains(sWPA, capabilities) THEN sWPA
    ELSE IF Contains(sWEP, capabilities) THEN sWEP
    ELSE IF capabilities = sEmpty \/ capabilities = sESS THEN sOpen
    ELSE capabilities

TermuxChannel(frequency) ==
    IF frequency >= 5000
    THEN Str((frequency - 5000) \div 5)
    ELSE Str(((frequency - 2412) \div 5) + 1)

\* an element on which the loop body raises (caught by the outer except)
TermuxElemRaises(network) ==
    \/ ~network.isobj
    \/ Get(network.frequency, JNum(2437)).k # "num"
    \/ Get(network.capabilities, JStr(sEmpty)).k # "str"

TermuxElem(network) ==
    [EmptySig EXCEPT
        !.type = JStr(sWifiType),
        !.ssid = Get(network.ssid, JStr(sUnknownSsid)),
        !.mac = Get(network.bssid, JStr(sUnknownMac)),
        !.rssi = Get(network.rssi, JNum(-100)),
        !.encryption =
            JStr(TermuxEncryption(Get(network.capabilities, JStr(sEmpty)).s)),
        !.channel = JStr(TermuxChannel(Get(network.frequency, JNum(2437)).n)),
        !.frequency = Get(network.frequency, JNum(2437))]

ScanWifiTermux(result) ==
    IF result.kind # "list" THEN <<>>
    ELSE IF \E i \in 1..Len(result.data) : TermuxElemRaises(result.data[i])
         THEN <<>>
         ELSE [i \in 1..Len(result.data) |-> TermuxElem(result.data[i])]

(***************************************************************************)
(* scan_wifi_alternative.  The command's result is [kind, lines]: kind is  *)
(* "error" (subprocess.run raised) or "ran"; a line is [t, tok, s, num, n]:*)
(*   t = "bss":    the line starts with BSS; tok says whether it has a     *)
(*                 second word, s is that word;                            *)
(*   t = "ssid":   the line holds SSID:, s is the text after it;           *)
(*   t = "signal": the line holds signal:, tok says whether a word follows *)
(*                 the colon, num whether float() accepts it, n its value; *)
(*   t = "other":  any other line.                                         *)
(***************************************************************************)
\* str.rstrip(chars)
RECURSIVE RStrip(_, _)
RStrip(s, chars) ==
    IF Len(s) > 0 /\ s[Len(s)] \in chars
    THEN RStrip(SubSeq(s, 1, Len(s) - 1), chars)
    ELSE s

AltLineRaises(line) ==
    \/ line.t = "bss" /\ ~line.tok
    \/ line.t = "signal" /\ (~line.tok \/ ~line.num)

\* the dict `current` after one line
AltCurrent(current, line) ==
    CASE line.t = "bss" ->
            [EmptySig EXCEPT !.mac = JStr(RStrip(line.s, {"(", "o", "n"})),
                             !.ssid = JStr(sEmpty),
                             !.rssi = JNum(-100)]
      [] line.t = "ssid" -> [current EXCEPT !.ssid = JStr(line.s)]
      [] line.t = "signal" -> [current EXCEPT !.rssi = JNum(line.n)]
      [] OTHER -> current

RECURSIVE AltLoop(_, _, _, _)
AltLoop(lines, i, current, networks) ==
    IF i > Len(lines)
    THEN IF current # EmptySig THEN Append(networks, current) ELSE networks
    ELSE AltLoop(lines, i + 1, AltCurrent(current, lines[i]),
                 IF lines[i].t = "bss" /\ current # EmptySig
                 THEN Append(networks, current) ELSE networks)

ScanWifiAlternative(result) ==
    IF result.kind # "ran" THEN <<>>
    ELSE IF \E i \in 1..Len(result.lines) : AltLineRaises(result.lines[i])
         THEN <<>>
         ELSE AltLoop(result.lines, 1, EmptySig, <<>>)

(***************************************************************************)
(* Inputs: what the external commands return.                              *)
(***************************************************************************)
macA == <<"a","a">>
macB == <<"b","b">>
MacStrs == {macA, macB}
HashVals == {-28801, 28980}
HashFns == [MacStrs -> HashVals]

ssidHome == <<"h","o","m","e">>
capsWPA2 == <<"[","W","P","A","2","]">>

Network(ssid, bssid, rssi, capabilities) ==
    [isobj |-> TRUE, ssid |-> ssid, bssid |-> bssid, rssi |-> rssi,
     frequency |-> JNum(2412), capabilities |-> capabilities]

TermuxResult(kind, data) == [kind |-> kind, data |-> data]

TermuxTimeout == TermuxResult("timeout", <<>>)
TermuxNonzero == TermuxResult("nonzero", <<>>)
TermuxEmpty == TermuxResult("empty", <<>>)

\* two networks, the weaker one reported first
TermuxTwo ==
    TermuxResult("list",
        <<Network(JStr(ssidHome), JStr(macA), JNum(-70), JStr(capsWPA2)),
          Network(JAbsent, JStr(macB), JNum(-40), JStr(sEmpty))>>)

TermuxOne ==
    TermuxResult("list",
        <<Network(JStr(ssidHome), JStr(macA), JNum(-45), JStr(capsWPA2))>>)

\* "rssi": "-45", a string: passes the parser, raises in the enrichment
TermuxBadRssi ==
    TermuxResult("list",
        <<Network(JStr(ssidHome), JStr(macA), JStr(<<"-","4","5">>),
                  JStr(capsWPA2))>>)

\* results of `termux-wifi-scaninfo` the main specification draws from
TermuxResults ==
    {TermuxTimeout, TermuxNonzero, TermuxEmpty, TermuxTwo, TermuxOne,
     TermuxBadRssi}

AltLine(t, tok, s, num, n) == [t |-> t, tok |-> tok, s |-> s, num |-> num, n |-> n]

AltResult(kind, lines) == [kind |-> kind, lines |-> lines]

AltError == AltResult("error", <<>>)
AltNothing == AltResult("ran", <<>>)

AltOne ==
    AltResult("ran",
        <<AltLine("bss", TRUE, <<"b","b","(","o","n">>, FALSE, 0),
          AltLine("ssid", FALSE, ssidHome, FALSE, 0),
          AltLine("signal", TRUE, <<>>, TRUE, -60)>>)

\* an SSID: line before any BSS line: a dict with neither mac nor rssi
AltNoBss ==
    AltResult("ran",
        <<AltLine("other", FALSE, <<>>, FALSE, 0),
          AltLine("ssid", FALSE, ssidHome, FALSE, 0)>>)

\* results of `su -c 'iw dev wlan0 scan'` the main specification draws from
AltResults == {AltError, AltNothing, AltOne, AltNoBss}

\* outcomes of `which termux-wifi-scaninfo` and of the test scan
WhichResults == {"ok", "nonzero", "error"}
TestScanResults == {"ok", "permission", "error"}

(***************************************************************************)
(* The heap of list objects.                                               *)
(***************************************************************************)
Ids == 1..(2 * Cardinality(Readers) + 3)

NoRes == [has |-> FALSE, sigRef |-> 0, tlRef |-> 0, last_scan |-> 0,
          signals |-> <<>>, timeline |-> <<>>]

\* the identities some name still refers to
Roots(sref, tref, rs) ==
    {sref, tref} \cup {rs[r].sigRef : r \in {q \in Readers : rs[q].has}}
                 \cup {rs[r].tlRef : r \in {q \in Readers : rs[q].has}}

\* a list nobody refers to is freed (reference counting)
Collect(h, roots) == [i \in Ids |-> IF i \in roots THEN h[i] ELSE <<>>]

NewId(roots) ==
    CHOOSE i \in Ids \ roots : \A j \in Ids \ roots : i <= j

NoOutcome == [cmd |-> "none", alt |-> "none", end |-> "none"]

\* strftime('%H:%M:%S'): the time of day, the date dropped
StrfTime(t) == t % SecondsPerDay

(***************************************************************************)
(* The initial state: AndroidScanner.__init__ up to the call of            *)
(* setup_termux.                                                           *)
(***************************************************************************)
InitStore ==
    /\ lock = "free"
    /\ wifi = <<>>
    /\ allSignals = <<>>
    /\ exc = "none"
    /\ heap = [i \in Ids |-> <<>>]
    /\ signalsRef = 1
    /\ timelineRef = 2
    /\ rpc = [r \in Readers |-> "idle"]
    /\ res = [r \in Readers |-> NoRes]
    /\ now = 0
    /\ outcome = NoOutcome
    /\ published = <<>>

InitPure ==
    /\ runPos = [m \in MacStrs |-> <<>>]
    /\ prevRunPos = [m \in MacStrs |-> <<>>]
    /\ riskArg = EmptySig
    /\ riskRet = <<>>
    /\ parseArg = <<>>
    /\ parseRet = <<>>

Init ==
    /\ proc = "probe1"
    /\ spc = "idle"
    /\ InitStore
    /\ InitPure
    /\ strhash \in HashFns

storeVars == <<lock, wifi, allSignals, exc, heap, signalsRef, timelineRef,
               outcome, published>>
readerVars == <<rpc, res>>
pureVars == <<strhash, runPos, prevRunPos, riskArg, riskRet, parseArg, parseRet>>

(***************************************************************************)
(* setup_termux and main.                                                  *)
(***************************************************************************)
\* lines 31-40: `which termux-wifi-scaninfo`
SetupWhich(result) ==
    /\ proc = "probe1"
    /\ proc' = IF result = "ok" THEN "probe2" ELSE "exited"
    /\ UNCHANGED <<spc, storeVars, readerVars, now, pureVars>>

\* lines 44-60: the test scan
SetupTestScan(result) ==
    /\ proc = "probe2"
    /\ proc' = IF result = "ok" THEN "constructed" ELSE "exited"
    /\ UNCHANGED <<spc, storeVars, readerVars, now, pureVars>>

\* main, lines 751-759: the scanner thread and the HTTP server start
MainStart ==
    /\ proc = "constructed"
    /\ proc' = "running"
    /\ spc' = "scan"
    /\ UNCHANGED <<storeVars, readerVars, now, pureVars>>

(***************************************************************************)
(* scan_all, one step per statement that another thread can interleave     *)
(* with, and run_scanner_loop around it.                                   *)
(***************************************************************************)
\* a plausible slip: the whole of scan_all under the lock
ScanWifiTermuxStepHoldingLock(result) ==
    /\ spc = "scan"
    /\ lock = "free"
    /\ lock' = "scanner"
    /\ wifi' = ScanWifiTermux(result)
    /\ spc' = IF Len(wifi') = 0 THEN "alt" ELSE "enrich"
    /\ outcome' = [cmd |-> result.kind, alt |-> "none", end |-> "running"]
    /\ exc' = "none"
    /\ UNCHANGED <<proc, allSignals, heap, signalsRef, timelineRef, published,
                   readerVars, now, pureVars>>

\* lines 238-243: the Termux scan
ScanWifiTermuxStep(result) ==
    /\ spc = "scan"
    /\ wifi' = ScanWifiTermux(result)
    /\ spc' = IF Len(wifi') = 0 THEN "alt" ELSE "enrich"
    /\ outcome' = [cmd |-> result.kind, alt |-> "none", end |-> "running"]
    /\ exc' = "none"
    /\ UNCHANGED <<proc, lock, allSignals, heap, signalsRef, timelineRef,
                   published, readerVars, now, pureVars>>

\* lines 244-246: the alternative scan
ScanWifiAltStep(result) ==
    /\ spc = "alt"
    /\ wifi' = ScanWifiAlternative(result)
    /\ spc' = "enrich"
    /\ outcome' = [outcome EXCEPT !.alt =
            IF result.kind # "ran" THEN "error"
            ELSE IF Len(wifi') = 0 THEN "nothing" ELSE "found"]
    /\ UNCHANGED <<proc, lock, allSignals, exc, heap, signalsRef, timelineRef,
                   published, readerVars, now, pureVars>>

\* scan_ble_termux is not called: line 249 sets ble = []
ble == <<>>

\* lines 251-261: all_signals = wifi + ble and the enrichment loop
EnrichStep ==
    /\ spc = "enrich"
    /\ IF EnrichAllRaises(wifi \o ble) # "none"
       THEN /\ exc' = EnrichAllRaises(wifi \o ble)
            /\ spc' = "raised"
            /\ outcome' = [outcome EXCEPT !.end = "raised"]
            /\ UNCHANGED allSignals
       ELSE /\ allSignals' = EnrichAll(wifi \o ble, now)
            /\ spc' = "lock"
            /\ UNCHANGED <<exc, outcome>>
    /\ UNCHANGED <<proc, lock, wifi, heap, signalsRef, timelineRef, published,
                   readerVars, now, pureVars>>

\* line 263: with self.lock
PublishAcquire ==
    /\ spc = "lock"
    /\ lock = "free"
    /\ lock' = "scanner"
    /\ spc' = "assign"
    /\ UNCHANGED <<proc, wifi, allSignals, exc, heap, signalsRef, timelineRef,
                   outcome, published, readerVars, now, pureVars>>

\* line 264: self.signals = all_signals, the list built at line 251
PublishAssign ==
    /\ spc = "assign"
    /\ LET id == NewId(Roots(signalsRef, timelineRef, res))
       IN  /\ signalsRef' = id
           /\ heap' = Collect([heap EXCEPT ![id] = allSignals],
                              Roots(id, timelineRef, res))
    /\ spc' = "insert"
    /\ UNCHANGED <<proc, lock, wifi, allSignals, exc, timelineRef, outcome,
                   published, readerVars, now, pureVars>>

\* lines 265-270, the dict inserted
TimelineEntry(t, all_signals, w, b) ==
    [time |-> StrfTime(t), count |-> Len(all_signals), wifi |-> Len(w),
     ble |-> Len(b)]

\* a plausible slip: list.append for list.insert(0, ...)
TimelineAppend(timeline, entry) == timeline \o <<entry>>

\* line 265: list.insert(0, entry)
TimelineInsert(timeline, entry) == <<entry>> \o timeline

\* line 271: timeline[:50], a new list
TimelineTrunc(timeline) == SubSeq(timeline, 1, Min(Len(timeline), HistoryBound))

\* lines 265-270: self.timeline.insert(0, ...) changes the list in place
PublishInsert ==
    /\ spc = "insert"
    /\ LET entry == TimelineEntry(now, allSignals, wifi, ble)
       IN  /\ heap' = [heap EXCEPT ![timelineRef] = TimelineInsert(@, entry)]
           /\ published' = Append(published, entry)
    /\ spc' = "trunc"
    /\ UNCHANGED <<proc, lock, wifi, allSignals, exc, signalsRef, timelineRef,
                   outcome, readerVars, now, pureVars>>

\* line 271: self.timeline = self.timeline[:50]
PublishTrunc ==
    /\ spc = "trunc"
    /\ LET id == NewId(Roots(signalsRef, timelineRef, res))
       IN  /\ timelineRef' = id
           /\ heap' = Collect([heap EXCEPT ![id] = TimelineTrunc(heap[timelineRef])],
                              Roots(signalsRef, id, res))
    /\ spc' = "release"
    /\ UNCHANGED <<proc, lock, wifi, allSignals, exc, signalsRef, outcome,
                   published, readerVars, now, pureVars>>

\* the end of the with block, and line 273
PublishRelease ==
    /\ spc = "release"
    /\ lock' = "free"
    /\ spc' = "sleep"
    /\ outcome' = [outcome EXCEPT !.end = "published"]
    /\ UNCHANGED <<proc, wifi, allSignals, exc, heap, signalsRef, timelineRef,
                   published, readerVars, now, pureVars>>

\* the classes `except Exception` catches, among those a cycle can raise
ExceptionClasses ==
    {"TypeError", "AttributeError", "KeyError", "ValueError", "IndexError",
     "OverflowError"}

\* a plausible slip: a handler for one class only
LoopCatchesTypeError(e) == e = "TypeError"

\* line 730: except Exception
LoopCatches(e) == e \in ExceptionClasses

\* lines 730-731: the exception of scan_all reaches run_scanner_loop
HandleException ==
    /\ spc = "raised"
    /\ spc' = IF LoopCatches(exc) THEN "sleep" ELSE "dead"
    /\ UNCHANGED <<proc, storeVars, readerVars, now, pureVars>>

\* line 732 and the next iteration of while True
SleepDone(maxSleeps) ==
    /\ spc = "sleep"
    /\ now + SleepSeconds <= maxSleeps * SleepSeconds
    /\ now' = now + SleepSeconds
    /\ spc' = "scan"
    /\ UNCHANGED <<proc, storeVars, readerVars, pureVars>>

(***************************************************************************)
(* get_data and do_GET, one request thread per reader.                     *)
(***************************************************************************)
\* line 277: with self.lock
GetDataAcquire(r) ==
    /\ proc = "running"
    /\ rpc[r] = "idle"
    /\ lock = "free"
    /\ lock' = r
    /\ rpc' = [rpc EXCEPT ![r] = "locked"]
    /\ UNCHANGED <<proc, spc, wifi, allSignals, exc, heap, signalsRef,
                   timelineRef, outcome, published, res, now, pureVars>>

\* lines 278-282: the dict refers to the two lists, it does not copy them;
\* signals and timeline record what the lists held at that moment
GetDataReturn(r) ==
    /\ rpc[r] = "locked"
    /\ res' = [res EXCEPT ![r] =
            [has |-> TRUE, sigRef |-> signalsRef, tlRef |-> timelineRef,
             last_scan |-> now, signals |-> heap[signalsRef],
             timeline |-> heap[timelineRef]]]
    /\ lock' = "free"
    /\ rpc' = [rpc EXCEPT ![r] = "dumps"]
    /\ UNCHANGED <<proc, spc, wifi, allSignals, exc, heap, signalsRef,
                   timelineRef, outcome, published, now, pureVars>>

\* lines 301-304: json.dumps(data) walks the two lists, then the dict is dropped
JsonDumps(r) ==
    /\ rpc[r] = "dumps"
    /\ res' = [res EXCEPT ![r] = NoRes]
    /\ rpc' = [rpc EXCEPT ![r] = "idle"]
    /\ heap' = Collect(heap, Roots(signalsRef, timelineRef, res'))
    /\ UNCHANGED <<proc, spc, lock, wifi, allSignals, exc, signalsRef,
                   timelineRef, outcome, published, now, pureVars>>

(***************************************************************************)
(* The program: start-up, the scanner thread and the request threads.      *)
(***************************************************************************)
Next ==
    \/ \E result \in WhichResults : SetupWhich(result)
    \/ \E result \in TestScanResults : SetupTestScan(result)
    \/ MainStart
    \/ \E result \in TermuxResults : ScanWifiTermuxStep(result)
    \/ \E result \in AltResults : ScanWifiAltStep(result)
    \/ EnrichStep
    \/ PublishAcquire
    \/ PublishAssign
    \/ PublishInsert
    \/ PublishTrunc
    \/ PublishRelease
    \/ HandleException
    \/ SleepDone(MaxSleeps)
    \/ \E r \in Readers : GetDataAcquire(r)
    \/ \E r \in Readers : GetDataReturn(r)
    \/ \E r \in Readers : JsonDumps(r)

Spec == Init /\ [][Next]_vars

(***************************************************************************)
(* The history specification: the scanner thread alone, run for more       *)
(* cycles than the timeline holds.  The first FreeCycles cycles draw their *)
(* command results freely; later cycles follow a fixed rotation (two       *)
(* networks; a timeout and one network from the alternative scan; empty    *)
(* output and a failing alternative scan).                                 *)
(***************************************************************************)
Cycle(t) == t \div SleepSeconds

HistTermuxResults(t) ==
    IF Cycle(t) < FreeCycles THEN {TermuxTwo, TermuxBadRssi, TermuxTimeout}
    ELSE IF Cycle(t) % 3 = 0 THEN {TermuxTwo}
    ELSE IF Cycle(t) % 3 = 1 THEN {TermuxTimeout}
    ELSE {TermuxEmpty}

HistAltResults(t) ==
    IF Cycle(t) < FreeCycles THEN {AltError, AltOne}
    ELSE IF Cycle(t) % 3 = 1 THEN {AltOne}
    ELSE {AltError}

InitHistory ==
    /\ proc = "running"
    /\ spc = "scan"
    /\ InitStore
    /\ InitPure
    /\ strhash \in HashFns

NextHistory ==
    \/ \E result \in HistTermuxResults(now) : ScanWifiTermuxStep(result)
    \/ \E result \in HistAltResults(now) : ScanWifiAltStep(result)
    \/ EnrichStep
    \/ PublishAcquire
    \/ PublishAssign
    \/ PublishInsert
    \/ PublishTrunc
    \/ PublishRelease
    \/ HandleException
    \/ SleepDone(MaxHistSleeps)

SpecHistory == InitHistory /\ [][NextHistory]_vars

(***************************************************************************)
(* The position specification: lines 259-261 applied to a MAC, in a        *)
(* process that can be stopped and started again.                          *)
(***************************************************************************)
InitPos ==
    /\ proc = "running"
    /\ spc = "scan"
    /\ InitStore
    /\ InitPure
    /\ strhash \in HashFns

\* lines 259-261 on a dict whose 'mac' is the str m
PlaceSignal(m) ==
    /\ runPos' = [runPos EXCEPT ![m] =
            <<PositionX(PyHash(JStr(m))), PositionY(PyHash(JStr(m)))>>]
    /\ UNCHANGED <<proc, spc, storeVars, readerVars, now, strhash, prevRunPos,
                   riskArg, riskRet, parseArg, parseRet>>

\* the process ends and main() runs again: a new interpreter, a new hash salt
RestartProcess ==
    /\ prevRunPos' = [m \in MacStrs |->
            IF runPos[m] # <<>> THEN runPos[m] ELSE prevRunPos[m]]
    /\ runPos' = [m \in MacStrs |-> <<>>]
    /\ strhash' \in HashFns
    /\ UNCHANGED <<proc, spc, storeVars, readerVars, now, riskArg, riskRet,
                   parseArg, parseRet>>

NextPos ==
    \/ \E m \in MacStrs : PlaceSignal(m)
    \/ RestartProcess

SpecPos == InitPos /\ [][NextPos]_vars

(***************************************************************************)
(* The risk specification: calculate_risk_score called on one dict.        *)
(***************************************************************************)
RiskEncryptions ==
    {JAbsent, JStr(sEmpty), JStr(sOpen), JStr(sWEP), JStr(sWPA), JStr(sWPA2),
     JStr(sWPA3), JStr(sUnknown), JStr(capsWPA2)}

RiskRssis ==
    {JAbsent} \cup {JNum(n) : n \in {-100, -75, -74, -65, -64, -50, -49, 0, 10}}

RiskSsids ==
    {JAbsent, JStr(sEmpty), JStr(sUnknownSsid), JStr(ssidHome),
     JStr(<<"F","r","e","e","W","i","f","i">>),
     JStr(<<"g","u","e","s","t">>),
     JStr(<<"A","n","d","r","o","i","d","A","P">>)}

RiskArgs ==
    {[EmptySig EXCEPT !.encryption = e, !.rssi = r, !.ssid = s] :
        e \in RiskEncryptions, r \in RiskRssis, s \in RiskSsids}

InitRisk ==
    /\ proc = "running"
    /\ spc = "scan"
    /\ InitStore
    /\ runPos = [m \in MacStrs |-> <<>>]
    /\ prevRunPos = [m \in MacStrs |-> <<>>]
    /\ strhash = [m \in MacStrs |-> 0]
    /\ riskArg \in RiskArgs
    /\ riskRet = <<>>
    /\ parseArg = <<>>
    /\ parseRet = <<>>

\* line 256: the call, on a dict it does not raise on
CallRiskScore ==
    /\ riskRet = <<>>
    /\ RiskRaises(riskArg) = "none"
    /\ riskRet' = <<CalculateRiskScore(riskArg)>>
    /\ UNCHANGED <<proc, spc, storeVars, readerVars, now, strhash, runPos,
                   prevRunPos, riskArg, parseArg, parseRet>>

NextRisk == CallRiskScore

SpecRisk == InitRisk /\ [][NextRisk]_vars

(***************************************************************************)
(* The encryption specification: lines 160-170 of scan_wifi_termux applied *)
(* to one capabilities string, built from up to MaxCapTokens bracketed     *)
(* flags as Android reports them.                                          *)
(***************************************************************************)
MaxCapTokens == 3

CapTokens ==
    {<<"[","W","P","A","3","]">>, <<"[","W","P","A","2","]">>,
     <<"[","W","P","A","]">>, <<"[","W","E","P","]">>, sESS,
     <<"[","W","P","S","]">>}

RECURSIVE CapStrings(_)
CapStrings(n) ==
    IF n = 0 THEN {sEmpty}
    ELSE CapStrings(n - 1)
         \cup {s \o tok : s \in CapStrings(n - 1), tok \in CapTokens}

InitEnc ==
    /\ proc = "running"
    /\ spc = "scan"
    /\ InitStore
    /\ runPos = [m \in MacStrs |-> <<>>]
    /\ prevRunPos = [m \in MacStrs |-> <<>>]
    /\ strhash = [m \in MacStrs |-> 0]
    /\ riskArg = EmptySig
    /\ riskRet = <<>>
    /\ parseArg \in CapStrings(MaxCapTokens)
    /\ parseRet = <<>>

\* lines 160-170 on the str parseArg
ParseEncryption ==
    /\ parseRet = <<>>
    /\ parseRet' = <<TermuxEncryption(parseArg)>>
    /\ UNCHANGED <<proc, spc, storeVars, readerVars, now, strhash, runPos,
                   prevRunPos, riskArg, riskRet, parseArg>>

NextEnc == ParseEncryption

SpecEnc == InitEnc /\ [][NextEnc]_vars

(***************************************************************************)
(* The parser specification: scan_wifi_termux on a decoded JSON list, or   *)
(* scan_wifi_alternative on the lines of the iw output, of up to           *)
(* MaxRecords elements, well-formed and malformed ones mixed.              *)
(***************************************************************************)
MaxRecords == 3

RECURSIVE SeqsUpTo(_, _)
SeqsUpTo(S, n) ==
    IF n = 0 THEN {<<>>}
    ELSE SeqsUpTo(S, n - 1)
         \cup {Append(s, e) : s \in SeqsUpTo(S, n - 1), e \in S}

\* elements of the JSON list: two well-formed objects (one without ssid),
\* an element that is no object, "capabilities": null, "frequency": "2412"
ParseNetworks ==
    {Network(JStr(ssidHome), JStr(macA), JNum(-70), JStr(capsWPA2)),
     Network(JAbsent, JStr(macB), JNum(-40), JStr(sEmpty)),
     [Network(JAbsent, JAbsent, JAbsent, JAbsent) EXCEPT
        !.isobj = FALSE, !.frequency = JAbsent],
     Network(JStr(ssidHome), JStr(macA), JNum(-45), JNull),
     [Network(JStr(ssidHome), JStr(macB), JNum(-45), JStr(capsWPA2)) EXCEPT
        !.frequency = JStr(<<"2","4","1","2">>)]}

\* lines of the iw output: two BSS lines, a BSS line cut after the first
\* word, an SSID line, a signal line, a signal line float() rejects
ParseLines ==
    {AltLine("bss", TRUE, <<"a","a","(","o","n">>, FALSE, 0),
     AltLine("bss", TRUE, <<"b","b","(","o","n">>, FALSE, 0),
     AltLine("bss", FALSE, <<>>, FALSE, 0),
     AltLine("ssid", FALSE, ssidHome, FALSE, 0),
     AltLine("signal", TRUE, <<>>, TRUE, -60),
     AltLine("signal", TRUE, <<>>, FALSE, 0)}

ParseArgs ==
    {[parser |-> "termux", kind |-> "list", data |-> d, lines |-> <<>>] :
        d \in SeqsUpTo(ParseNetworks, MaxRecords) \ {<<>>}}
    \cup
    {[parser |-> "alt", kind |-> "ran", data |-> <<>>, lines |-> l] :
        l \in SeqsUpTo(ParseLines, MaxRecords) \ {<<>>}}

InitParse ==
    /\ proc = "running"
    /\ spc = "scan"
    /\ InitStore
    /\ runPos = [m \in MacStrs |-> <<>>]
    /\ prevRunPos = [m \in MacStrs |-> <<>>]
    /\ strhash = [m \in MacStrs |-> 0]
    /\ riskArg = EmptySig
    /\ riskRet = <<>>
    /\ parseArg \in ParseArgs
    /\ parseRet = <<>>

\* line 239: scan_wifi_termux on the command's result
CallScanWifiTermux ==
    /\ parseRet = <<>>
    /\ parseArg.parser = "termux"
    /\ parseRet' = <<ScanWifiTermux(parseArg)>>
    /\ UNCHANGED <<proc, spc, storeVars, readerVars, now, strhash, runPos,
                   prevRunPos, riskArg, riskRet, parseArg>>

\* line 245: scan_wifi_alternative on the command's result
CallScanWifiAlternative ==
    /\ parseRet = <<>>
    /\ parseArg.parser = "alt"
    /\ parseRet' = <<ScanWifiAlternative(parseArg)>>
    /\ UNCHANGED <<proc, spc, storeVars, readerVars, now, strhash, runPos,
                   prevRunPos, riskArg, riskRet, parseArg>>

NextParse ==
    \/ CallScanWifiTermux
    \/ CallScanWifiAlternative

SpecParse == InitParse /\ [][NextParse]_vars

(***************************************************************************)
(* The claims.                                                             *)
(***************************************************************************)

\* C1: every get_data result is a consistent snapshot: its last_scan is the
\* timestamp of the scan cycle that produced the signals it returns.
\* (get_data stamps the result with the time of the call, line 281.)
SnapshotTimestampIsScanTime ==
    \A r \in Readers :
        res[r].has =>
            \A i \in 1..Len(res[r].signals) :
                res[r].signals[i].timestamp = JNum(res[r].last_scan)

\* C2: whenever the store can be read (the scanner is outside its critical
\* section), the timeline holds at most 50 entries and equals the entries of
\* the most recent min(n, 50) recorded cycles, newest first.
HistoryIsRecentCycles ==
    lock # "scanner" =>
        LET timeline == heap[timelineRef]
            n == Len(published)
        IN  /\ Len(timeline) <= 50
            /\ Len(timeline) = Min(n, 50)
            /\ \A i \in 1..Len(timeline) : timeline[i] = published[n + 1 - i]

\* C2 witness: more than 50 cycles were recorded, the oldest ones are gone
HistoryEvicted ==
    /\ lock # "scanner"
    /\ Len(published) > 50
    /\ Len(heap[timelineRef]) = 50
    /\ heap[timelineRef][50] = published[Len(published) - 49]

\* C3: reader isolation: while a reader still holds (serializes) a get_data
\* result, the lists reachable from it hold what they held when get_data
\* returned.  (list.insert at line 265 changes the timeline list in place.)
ReaderIsolation ==
    \A r \in Readers :
        res[r].has =>
            /\ heap[res[r].sigRef] = res[r].signals
            /\ heap[res[r].tlRef] = res[r].timeline

\* C4: the acquisition loop never stops: no outcome of a cycle leaves the
\* scanner thread dead.
ScanLoopNeverStops == spc # "dead"

\* C4 witness: a cycle raised, the loop caught it, slept and is scanning again
RaisedCycleFollowedByScan ==
    /\ spc = "scan"
    /\ exc # "none"
    /\ outcome.end = "raised"
    /\ now > 0

\* a cycle none of whose commands produced a network, or that raised
CycleFailed ==
    \/ outcome.end = "raised"
    \/ /\ outcome.end = "published"
       /\ outcome.cmd \in {"timeout", "error", "nonzero", "empty"}
       /\ outcome.alt \in {"error", "nothing"}

\* C5: after a failed cycle (command failure, timeout, empty output or any
\* exception) the store holds an empty signal list and a history entry with
\* count 0 for that cycle.  (A cycle that raises publishes nothing.)
FailedCyclePublishesEmpty ==
    (spc = "sleep" /\ CycleFailed) =>
        /\ heap[signalsRef] = <<>>
        /\ Len(heap[timelineRef]) = Len(published)
        /\ Len(published) > 0
        /\ published[Len(published)].time = StrfTime(now)
        /\ heap[timelineRef][1].count = 0

\* C6: the lock is never held by the scanner while a scan command runs or
\* its output is parsed or enriched, so a reader that wants the lock then
\* finds it free or held by another reader, never by the scan.
LockNotHeldWhileScanning ==
    spc \in {"scan", "alt", "enrich", "raised", "sleep", "lock"} =>
        lock \in {"free"} \cup Readers

\* C6 witness: get_data returned while the first cycle was still in flight
GetDataDuringFirstScan ==
    /\ spc \in {"alt", "enrich"}
    /\ published = <<>>
    /\ \E r \in Readers : rpc[r] = "dumps" /\ res[r].has

\* C7: a failed start-up probe never ends the process.
\* (setup_termux calls exit(1) on every probe failure.)
ProbeFailureNotFatal == proc # "exited"

\* C8: calculate_risk_score returns an integer in [0,100] for every
\* combination of encryption, signal strength and label.
RiskScoreInRange ==
    riskRet # <<>> => riskRet[1] \in 0..100

\* C8 witness: the call on empty encryption, absent rssi and a hidden label
RiskScoreOnDefaults ==
    /\ riskArg.encryption = JStr(sEmpty)
    /\ riskArg.rssi = JAbsent
    /\ riskArg.ssid = JStr(sUnknownSsid)
    /\ riskRet = <<60>>

\* C9: the position of a MAC is the same in every scan of one run and in
\* two runs of the process, and lies in [-100,100] x [-100,100].
\* (hash() of a str differs from one process to the next.)
PositionStableAcrossRuns ==
    \A m \in MacStrs :
        /\ runPos[m] # <<>> =>
                /\ runPos[m][1] \in -100..100
                /\ runPos[m][2] \in -100..100
        /\ (runPos[m] # <<>> /\ prevRunPos[m] # <<>>) => runPos[m] = prevRunPos[m]

\* C10: the signals of every get_data result are ordered by descending rssi.
\* (scan_all never sorts: the order is the scan command's.)
SignalsSortedByStrength ==
    \A r \in Readers :
        res[r].has =>
            \A i \in 1..(Len(res[r].signals) - 1) :
                res[r].signals[i].rssi.n >= res[r].signals[i + 1].rssi.n

\* C11: the encryption class of a capabilities string is one of Open, WEP,
\* WPA, WPA2, WPA3, Unknown, chosen in the priority order WPA3, WPA2, WPA,
\* WEP, Open (empty or exactly "[ESS]"), otherwise Unknown.
\* (The code has no WPA3 branch and returns the raw string in its else branch.)
EncryptionClassByPriority ==
    parseRet # <<>> =>
        /\ parseRet[1] \in {sOpen, sWEP, sWPA, sWPA2, sWPA3, sUnknown}
        /\ parseRet[1] =
              IF Contains(sWPA3, parseArg) THEN sWPA3
              ELSE IF Contains(sWPA2, parseArg) THEN sWPA2
              ELSE IF Contains(sWPA, parseArg) THEN sWPA
              ELSE IF Contains(sWEP, parseArg) THEN sWEP
              ELSE IF parseArg = sEmpty \/ parseArg = sESS THEN sOpen
              ELSE sUnknown

\* an element of the JSON list the loop body of scan_wifi_termux can map
WellFormedNetwork(network) == ~TermuxElemRaises(network)

\* C12: the parsers are tolerant record by record: scan_wifi_termux returns
\* exactly the records of the well-formed elements, in order, and
\* scan_wifi_alternative returns a record for every well-formed BSS line,
\* whatever malformed elements or lines the same output holds.
\* (Both parsers wrap the whole loop in one try and return [] on any error.)
ParsersSkipOnlyOffendingRecords ==
    parseRet # <<>> =>
        IF parseArg.parser = "termux"
        THEN LET good == SelectSeq(parseArg.data, WellFormedNetwork)
             IN  parseRet[1] = [i \in 1..Len(good) |-> TermuxElem(good[i])]
        ELSE \A i \in 1..Len(parseArg.lines) :
                (parseArg.lines[i].t = "bss" /\ parseArg.lines[i].tok) =>
                    \E j \in 1..Len(parseRet[1]) :
                        parseRet[1][j].mac =
                            JStr(RStrip(parseArg.lines[i].s, {"(", "o", "n"}))

\* C13: the risk score is monotonic: with label and encryption fixed a
\* stronger signal never lowers it; with label and signal fixed a weaker
\* encryption class never scores lower (Open >= WEP >= WPA >= WPA2, WPA3);
\* and WPA2 and WPA3 receive no encryption penalty.
\* (The WPA test excludes WPA2 only, so 'WPA3' gets the WPA penalty of 20.)
RiskScoreMonotonic ==
    riskRet # <<>> =>
        LET weakness(e) ==
                CASE e = JStr(sOpen) \/ e = JStr(sEmpty) -> 4
                  [] e = JStr(sWEP) -> 3
                  [] e = JStr(sWPA) -> 2
                  [] e = JStr(sWPA2) \/ e = JStr(sWPA3) -> 1
                  [] OTHER -> 0
            ssid == Lower(Get(riskArg.ssid, JStr(sEmpty)).s)
            rssi == Get(riskArg.rssi, JNum(-100)).n
        IN  /\ \A r \in RiskRssis :
                  (r.k = "num" /\ riskArg.rssi.k = "num" /\ r.n >= riskArg.rssi.n) =>
                      CalculateRiskScore([riskArg EXCEPT !.rssi = r]) >= riskRet[1]
            /\ \A e \in RiskEncryptions :
                  (weakness(riskArg.encryption) > 0
                   /\ weakness(e) >= weakness(riskArg.encryption)) =>
                      CalculateRiskScore([riskArg EXCEPT !.encryption = e])
                          >= riskRet[1]
            /\ weakness(riskArg.encryption) = 1 =>
                  riskRet[1] = ProximityTerm(rssi) + SuspiciousTerm(ssid)
                               + HiddenTerm(ssid)

\* C14: what a reader sees through a get_data result taken after a cycle
\* has published is one cycle's data: the newest history entry's count is the
\* length of the signals list, and count = wifi + ble.
\* (The reader holds the timeline list itself, which line 265 changes in
\* place: see C3.)
HistoryHeadMatchesSignals ==
    \A r \in Readers :
        (res[r].has /\ Len(res[r].timeline) > 0) =>
            /\ heap[res[r].tlRef][1].count = Len(heap[res[r].sigRef])
            /\ heap[res[r].tlRef][1].count =
                  heap[res[r].tlRef][1].wifi + heap[res[r].tlRef][1].ble

\* C14 at the moment get_data returns, before any later cycle: the pair
\* read under the lock is one cycle's data
ReturnedHeadMatchesSignals ==
    \A r \in Readers :
        (res[r].has /\ Len(res[r].timeline) > 0) =>
            /\ res[r].timeline[1].count = Len(res[r].signals)
            /\ res[r].timeline[1].count =
                  res[r].timeline[1].wifi + res[r].timeline[1].ble

====
